---- MODULE Spec2Model ----
(***************************************************************************)
(* Model of report-info-agent.                                             *)
(*                                                                         *)
(*   pipeline/core/llm_extractor.py   verify_name_presence,                *)
(*                                    rank_names_from_text                 *)
(*   pipeline/orchestrator.py         _run_verification, _run_ranking,     *)
(*                                    process_task                         *)
(*   preprocessing/orchestrator.py    process_file (chapter-start search)  *)
(*   preprocessing/core/llm_clients.py verify_chapter_start_page           *)
(*                                                                         *)
(* The external services (converter, oracle) are the environment: every    *)
(* answer they can give is an input drawn with \E from a bounded set.      *)
(*                                                                         *)
(* Specifications:                                                         *)
(*   SpecExtractor  the two post-processing functions of llm_extractor.py  *)
(*                  applied to every roster and every oracle answer        *)
(*   SpecTask       one run of process_task                                *)
(*   SpecLocator    one run of process_file's search as the sources have   *)
(*                  it (caller and callee of verify_chapter_start_page)    *)
(*   SpecSearch     the search loop of process_file driven by a verifier   *)
(*                  that takes the four arguments the loop passes          *)
(***************************************************************************)
EXTENDS Integers, Sequences, FiniteSets, TLC

\* ex:   the extractor functions under test (roster, oracle answer, result)
\* task: one run of process_task
\* loc:  one run of the chapter-start search of process_file
VARIABLES ex, task, loc, ord

vars == <<ex, task, loc, ord>>

\* ------------------------------------------------------------------ bounds
\* Largest roster of one category; names are 1..MaxRoster+1, so that there is
\* always a name outside every roster.
MaxRoster == 2
\* Longest person list (and found_names list) an oracle answer holds.
MaxPersons == 3

Names == 1..(MaxRoster + 1)
Rosters == {1..k : k \in 0..MaxRoster}

\* ----------------------------------------------------------------- schemas
Levels == {"High", "Medium", "Low"}

\* Position of a confidence level on the scale High > Medium > Low.
LevelNum(l) == CASE l = "High" -> 2 [] l = "Medium" -> 1 [] OTHER -> 0

Ranks == {-1, 1}
Roles == {"N/A", "r"}
Person == [rank : Ranks, name : Names, role : Roles]

\* A doubt string, by the template that produced it: kind names the template,
\* n and names are the values formatted into it.
Doubt(kind, n, names) == [kind |-> kind, n |-> n, names |-> names]

\* The doubts lists an oracle answer can carry: none, or one free-text doubt.
OracleDoubts == {<<>>, <<Doubt("oracle", 0, {})>>}

ConfidenceAssessment(level, doubts) == [level |-> level, doubts |-> doubts]

\* Sequences over S of length at most n.
SeqUpTo(S, n) == UNION {[1..k -> S] : k \in 0..n}

NameSet(persons) == {persons[i].name : i \in DOMAIN persons}

\* Set to sequence, ascending.
RECURSIVE SortedSeq(_)
SortedSeq(S) ==
    IF S = {} THEN <<>>
    ELSE LET m == CHOOSE x \in S : \A y \in S : x <= y
         IN  <<m>> \o SortedSeq(S \ {m})

\* ------------------------------------------------ rank_names_from_text
\* A CategoryExtractionResult, or None (ok = FALSE).
RankResult(persons, level, doubts) ==
    [ok |-> TRUE, persons |-> persons, level |-> level, doubts |-> doubts]

RankNone == [ok |-> FALSE, persons |-> <<>>, level |-> "Low", doubts |-> <<>>]

\* What the ranking oracle can answer: a failure (non-200, no tool call, schema
\* violation, exception) or any schema-valid CategoryExtractionResult.
RankAnswers ==
    {RankNone} \cup
    {RankResult(p, l, d) : p \in SeqUpTo(Person, MaxPersons), l \in Levels, d \in OracleDoubts}

\* The names bound at module level in llm_extractor.py.
ExtractorGlobals ==
    {"requests", "json", "logging", "Settings", "CategoryExtractionResult",
     "CoreBlocksExtractionResult", "NameVerificationResult", "ConfidenceAssessment",
     "Literal", "Optional", "List", "logger"}

\* Mutant: the filter without its `if hallucinated_names:` test.
RankHallucinationFilter_Unguarded(res, roster) ==
    [res EXCEPT
       !.persons = SelectSeq(res.persons, LAMBDA p : p.name \in roster),
       !.doubts = Append(res.doubts,
                         Doubt("hallucination", 0, NameSet(res.persons) \ roster)),
       !.level = "Medium"]

\* Step 1: names outside the roster are removed.
RankHallucinationFilter(res, roster) ==
    LET hallucinated_names == NameSet(res.persons) \ roster
    IN  IF hallucinated_names # {}
        THEN [res EXCEPT
                !.persons = SelectSeq(res.persons, LAMBDA p : p.name \in roster),
                !.doubts = Append(res.doubts,
                                  Doubt("hallucination", 0, hallucinated_names)),
                !.level = "Medium"]
        ELSE res

\* Step 2: the length of the list is compared with the size of the roster; the
\* backfill builds schemas.Person, and the exception of an unbound name leaves
\* the function through its except clause, which returns None.
RankCompleteness(res, roster) ==
    IF Len(res.persons) # Cardinality(roster)
    THEN LET missing_names_in_output == roster \ NameSet(res.persons)
         IN  IF missing_names_in_output # {}
             THEN IF "schemas" \in ExtractorGlobals
                  THEN [res EXCEPT
                          !.persons = res.persons \o
                              [i \in 1..Cardinality(missing_names_in_output) |->
                                  [rank |-> -1,
                                   name |-> SortedSeq(missing_names_in_output)[i],
                                   role |-> "N/A"]],
                          !.doubts = Append(res.doubts,
                              Doubt("backfill", Cardinality(missing_names_in_output), {})),
                          !.level = "Medium"]
                  ELSE RankNone
             ELSE [res EXCEPT
                     !.doubts = Append(res.doubts,
                         Doubt("count_mismatch", Len(res.persons), {})),
                     !.level = "Medium"]
    ELSE res

\* doubt_msg in d, for the message "名单中 n 人在原文中未找到 (rank: -1)".
HasNotFoundMsg(doubts, n) ==
    \E i \in DOMAIN doubts : doubts[i].kind = "not_found_rank" /\ doubts[i].n = n

\* Mutant: the level is set to Medium whatever it was.
RankNotFound_ForceMedium(res) ==
    LET not_found_persons == SelectSeq(res.persons, LAMBDA p : p.rank = -1)
        n == Len(not_found_persons)
    IN  IF n > 0
        THEN [res EXCEPT
                !.doubts = IF HasNotFoundMsg(res.doubts, n) THEN res.doubts
                           ELSE Append(res.doubts,
                                       Doubt("not_found_rank", n, NameSet(not_found_persons))),
                !.level = "Medium"]
        ELSE res

\* Step 3: the persons the oracle reported with rank -1.
RankNotFound(res) ==
    LET not_found_persons == SelectSeq(res.persons, LAMBDA p : p.rank = -1)
        n == Len(not_found_persons)
    IN  IF n > 0
        THEN [res EXCEPT
                !.doubts = IF HasNotFoundMsg(res.doubts, n) THEN res.doubts
                           ELSE Append(res.doubts,
                                       Doubt("not_found_rank", n, NameSet(not_found_persons))),
                !.level = IF res.level = "High" THEN "Medium" ELSE res.level]
        ELSE res

rank_names_from_text(target_names, answer) ==
    IF target_names = {}
    THEN RankResult(<<>>, "High", <<Doubt("empty_roster", 0, {})>>)
    ELSE IF ~answer.ok THEN RankNone
    ELSE LET filtered == RankHallucinationFilter(answer, target_names)
             completed == RankCompleteness(filtered, target_names)
         IN  IF ~completed.ok THEN RankNone ELSE RankNotFound(completed)

\* ------------------------------------------------ verify_name_presence
\* A NameVerificationResult, or None (ok = FALSE).
VerifyResult(found, level, doubts) ==
    [ok |-> TRUE, found_names |-> found, level |-> level, doubts |-> doubts]

VerifyNone == [ok |-> FALSE, found_names |-> <<>>, level |-> "Low", doubts |-> <<>>]

VerifyAnswers ==
    {VerifyNone} \cup
    {VerifyResult(f, l, d) : f \in SeqUpTo(Names, MaxPersons), l \in Levels, d \in OracleDoubts}

Range(s) == {s[i] : i \in DOMAIN s}

\* Mutant: the doubt is recorded but found_names is left as the oracle gave it.
VerifyHallucinationFilter_NoStrip(res, target_names) ==
    LET invalid_names == Range(res.found_names) \ target_names
    IN  IF invalid_names # {}
        THEN [res EXCEPT
                !.doubts = Append(res.doubts, Doubt("hallucination", 0, invalid_names)),
                !.level = "Medium"]
        ELSE res

\* The final check of the answer: no name outside the roster is returned.
VerifyHallucinationFilter(res, target_names) ==
    LET invalid_names == Range(res.found_names) \ target_names
    IN  IF invalid_names # {}
        THEN [res EXCEPT
                !.found_names = SelectSeq(res.found_names, LAMBDA nm : nm \in target_names),
                !.doubts = Append(res.doubts, Doubt("hallucination", 0, invalid_names)),
                !.level = "Medium"]
        ELSE res

\* blank: markdown_content.strip() is empty.
verify_name_presence(blank, target_names, answer) ==
    IF target_names = {}
    THEN VerifyResult(<<>>, "High", <<Doubt("empty_roster", 0, {})>>)
    ELSE IF blank
    THEN VerifyResult(<<>>, "High", <<Doubt("empty_text", 0, {})>>)
    ELSE IF ~answer.ok THEN VerifyNone
    ELSE VerifyHallucinationFilter(answer, target_names)

\* ------------------------------------------------ state records
\* Names a task's rosters are drawn from; MaxTaskNames + 1 is in no roster.
MaxTaskNames == 2

Cats == <<"Directors", "Supervisors", "SeniorManagement">>
CatSet == {Cats[i] : i \in DOMAIN Cats}
TaskRosters == SUBSET (1..MaxTaskNames)

\* The rosters a task is run with: any set of directors, no supervisor or the
\* first name, no senior manager or the last name (rosters that overlap, that
\* are disjoint, that are empty).
TaskLists ==
    {l \in [CatSet -> TaskRosters] :
        l["Supervisors"] \subseteq {1} /\ l["SeniorManagement"] \subseteq {MaxTaskNames}}

\* The extractor functions, not called.
ExIdle ==
    [pc |-> "idle", roster |-> {}, blank |-> FALSE,
     ranswer |-> RankNone, rresult |-> RankNone, ronce |-> RankNone,
     vanswer |-> VerifyNone, vresult |-> VerifyNone, vonce |-> VerifyNone]

\* process_task, not started.
TaskIdle ==
    [pc |-> "idle", lists |-> [c \in CatSet |-> {}],
     p1_blank |-> FALSE, p2_blank |-> FALSE,
     verified |-> <<>>, p1_found_count |-> 0, p2_found_count |-> 0,
     source |-> "N/A", ver_level |-> "High", verification_doubts |-> <<>>,
     cat |-> 1, results |-> [c \in CatSet |-> RankNone], final_found_count |-> 0,
     status |-> "failed", calls |-> <<>>, csv |-> {}, saved |-> <<>>]

\* process_file, not started.
LocIdle ==
    [pc |-> "idle", total_pages |-> 0, start_page |-> 0, end_page |-> 0,
     current_pdf_index |-> 0, found_pdf_index |-> -1, visited_indexes |-> {},
     i |-> 0, verification_history |-> <<>>, tested |-> <<>>, pages |-> <<>>,
     result |-> "", start_index |-> -1, end_index |-> -1]

\* The ranking answers of a task, by category, as they come in: the
\* categories answered so far, and the task as it stood before the first.
OrdIdle ==
    [done |-> {}, answers |-> [c \in CatSet |-> RankNone], base |-> TaskIdle]

\* ------------------------------------------------ SpecExtractor
InitExtractor ==
    /\ \E r \in Rosters, b \in BOOLEAN :
          ex = [ExIdle EXCEPT !.pc = "start", !.roster = r, !.blank = b]
    /\ task = TaskIdle
    /\ loc = LocIdle
    /\ ord = OrdIdle

\* rank_names_from_text(text, category, roster) with the oracle answering a.
\* The function does not look at the text: it is called for one of the texts.
CallRank ==
    /\ ex.pc = "start"
    /\ ~ex.blank
    /\ \E a \in RankAnswers :
          ex' = [ex EXCEPT !.pc = "ranked", !.ranswer = a,
                           !.rresult = rank_names_from_text(ex.roster, a)]
    /\ UNCHANGED <<task, loc, ord>>

\* verify_name_presence(text, roster) with the oracle answering a.
CallVerify ==
    /\ ex.pc = "start"
    /\ \E a \in VerifyAnswers :
          ex' = [ex EXCEPT !.pc = "verified", !.vanswer = a,
                           !.vresult = verify_name_presence(ex.blank, ex.roster, a)]
    /\ UNCHANGED <<task, loc, ord>>

\* The hallucination filter applied once more to a returned result, against
\* the same roster.
FilterAgain ==
    /\ \/ /\ ex.pc = "ranked"
          /\ ex.rresult.ok
          /\ ex' = [ex EXCEPT !.pc = "ranked_again", !.ronce = ex.rresult,
                              !.rresult = RankHallucinationFilter(ex.rresult, ex.roster)]
       \/ /\ ex.pc = "verified"
          /\ ex.vresult.ok
          /\ ex' = [ex EXCEPT !.pc = "verified_again", !.vonce = ex.vresult,
                              !.vresult = VerifyHallucinationFilter(ex.vresult, ex.roster)]
    /\ UNCHANGED <<task, loc, ord>>

NextExtractor == CallRank \/ CallVerify \/ FilterAgain

SpecExtractor == InitExtractor /\ [][NextExtractor]_vars

\* ------------------------------------------------ process_task
\* combined_target_list: the union of the three rosters.
Combined(lists) == UNION {lists[c] : c \in CatSet}

\* The verification answers a task is run against: failure, or any set of
\* names (of the roster or not) with a level of High or Low.
TaskVerifyAnswers ==
    {VerifyNone} \cup
    {VerifyResult(SortedSeq(f), l, <<>>) :
        f \in SUBSET (1..(MaxTaskNames + 1)), l \in {"High", "Low"}}

Located(R) ==
    [i \in 1..Cardinality(R) |-> [rank |-> 1, name |-> SortedSeq(R)[i], role |-> "r"]]

\* The first member reported with rank -1 and role "N/A".
FirstNotFound(R) ==
    [Located(R) EXCEPT ![1] = [rank |-> -1, name |-> Located(R)[1].name, role |-> "N/A"]]

\* The faulty person lists a task's ranking is run against, for roster R: the
\* first member left out; a person outside the roster added; the first
\* member repeated in place of the last.
FaultyLists(R) ==
    {Tail(Located(R)),
     Append(Located(R), [rank |-> 1, name |-> MaxTaskNames + 1, role |-> "r"]),
     [Located(R) EXCEPT ![Len(Located(R))] = Located(R)[1]]}

\* The ranking answers a task is run against, for roster R: failure;
\* everybody located, with a level of High or Low or with a doubt; the first
\* member not found, with a level of High or Low; a faulty list.
TaskRankAnswers(R) ==
    {RankNone}
    \cup {RankResult(Located(R), "High", d) : d \in OracleDoubts}
    \cup {RankResult(p, l, <<>>) : p \in {Located(R), FirstNotFound(R)}, l \in {"High", "Low"}}
    \cup {RankResult(p, "High", <<>>) : p \in FaultyLists(R)}

InitTask ==
    /\ \E l \in TaskLists :
          task = [TaskIdle EXCEPT !.pc = "load", !.lists = l]
    /\ ex = ExIdle
    /\ loc = LocIdle
    /\ ord = OrdIdle

\* Mutant: the task goes on after its status is fixed.
Finish_NoReturn(t, status) ==
    [t EXCEPT !.status = status, !.saved = Append(t.saved, status)]

\* Mutant: the bundle is saved at the end of the try block only, not after a
\* fatal error.
Finish_SaveInTryOnly(t, status) ==
    [t EXCEPT !.pc = "done", !.status = status,
              !.saved = IF status = "failed" THEN t.saved ELSE Append(t.saved, status)]

\* A fatal error (except Exception) or the end of the try block, then the
\* finally block: save_debug_files(task_id, status, ...) and return status.
Finish(t, status) ==
    [t EXCEPT !.pc = "done", !.status = status, !.saved = Append(t.saved, status)]

\* Mutant: an empty roster does not end the task.
LoadRoster_NoShortCircuit ==
    /\ task.pc = "load"
    /\ task' = [task EXCEPT !.pc = "parse"]
    /\ UNCHANGED <<ex, loc, ord>>

\* Step 0: the rosters are loaded; an empty union ends the task as success.
LoadRoster ==
    /\ task.pc = "load"
    /\ task' = IF Cardinality(Combined(task.lists)) = 0
               THEN Finish(task, "success")
               ELSE [task EXCEPT !.pc = "parse"]
    /\ UNCHANGED <<ex, loc, ord>>

\* Step 1: parse_pdf_to_markdown raises, or returns blank or usable markdown.
ParsePdf ==
    /\ task.pc = "parse"
    /\ \E outcome \in {"raise", "blank", "markdown"} :
          LET t == [task EXCEPT !.calls = Append(task.calls, "parse")]
          IN  task' = IF outcome = "markdown" THEN [t EXCEPT !.pc = "split"]
                      ELSE Finish(t, "failed")
    /\ UNCHANGED <<ex, loc, ord>>

\* Step 1+: extract_core_blocks returns None, or the tables (P1) and the
\* employment section (P2), each blank after strip() or not.
ExtractCoreBlocks ==
    /\ task.pc = "split"
    /\ \E ok \in BOOLEAN, b1, b2 \in BOOLEAN :
          LET t == [task EXCEPT !.calls = Append(task.calls, "split")]
          IN  task' = IF ok
                      THEN [t EXCEPT !.pc = "verify_p1", !.p1_blank = b1, !.p2_blank = b2]
                      ELSE Finish(t, "failed")
    /\ UNCHANGED <<ex, loc, ord>>

\* _run_verification: a blank text is not sent to the oracle; a None from
\* verify_name_presence is raised (ok = FALSE).
run_verification(blank, combined, answer) ==
    IF blank
    THEN VerifyResult(<<>>, "Low", <<Doubt("blank_source", 0, {})>>)
    ELSE verify_name_presence(blank, combined, answer)

\* final_source_text is blank: the task raises. Otherwise ranking starts.
AfterDecision(t, final_blank) ==
    IF final_blank THEN Finish(t, "failed") ELSE [t EXCEPT !.pc = "rank", !.cat = 1]

\* Mutant: the found-count compared with the number of rosters.
P1Complete_Categories(p1_found_count, total_target_count) ==
    p1_found_count = Len(Cats)

\* P1 is the source, and P2 is not verified, when P1 holds the whole roster.
P1Complete(p1_found_count, total_target_count) ==
    p1_found_count = total_target_count

\* Steps 2/3, P1: verification of the tables, and the decision when P1 holds
\* the whole roster.
VerifyP1 ==
    /\ task.pc = "verify_p1"
    /\ \E a \in TaskVerifyAnswers :
          LET combined == Combined(task.lists)
              v == run_verification(task.p1_blank, combined, a)
              p1_found_count == Cardinality(Range(v.found_names))
              t == [task EXCEPT
                      !.calls = IF task.p1_blank THEN task.calls
                                ELSE Append(task.calls, "verify_p1"),
                      !.verified = Append(task.verified, "P1"),
                      !.p1_found_count = p1_found_count,
                      !.ver_level = v.level, !.verification_doubts = v.doubts]
          IN  task' = IF ~v.ok THEN Finish(t, "failed")
                      ELSE IF P1Complete(p1_found_count, Cardinality(combined))
                      THEN AfterDecision([t EXCEPT !.source = "P1"], task.p1_blank)
                      ELSE [t EXCEPT !.pc = "verify_p2"]
    /\ UNCHANGED <<ex, loc, ord>>

\* Mutant: a tie goes to P2.
SelectP2_OnTie(p1_found_count, p2_found_count) == p2_found_count >= p1_found_count

\* P2 is the source when it found more names than P1.
SelectP2(p1_found_count, p2_found_count) == p2_found_count > p1_found_count

\* Steps 2/3, P2: verification of the employment section, and the final
\* decision between P1 and P2.
VerifyP2 ==
    /\ task.pc = "verify_p2"
    /\ \E a \in TaskVerifyAnswers :
          LET combined == Combined(task.lists)
              v == run_verification(task.p2_blank, combined, a)
              p2_found_count == Cardinality(Range(v.found_names))
              t == [task EXCEPT
                      !.calls = IF task.p2_blank THEN task.calls
                                ELSE Append(task.calls, "verify_p2"),
                      !.verified = Append(task.verified, "P2"),
                      !.p2_found_count = p2_found_count]
          IN  task' = IF ~v.ok THEN Finish(t, "failed")
                      ELSE IF SelectP2(task.p1_found_count, p2_found_count)
                      THEN AfterDecision([t EXCEPT !.source = "P2",
                                                   !.ver_level = v.level,
                                                   !.verification_doubts = v.doubts],
                                         task.p2_blank)
                      ELSE AfterDecision([t EXCEPT !.source = "P1"], task.p1_blank)
    /\ UNCHANGED <<ex, loc, ord>>

\* doubt_msg in d, for the message "名单中 n 人未在原文中找到".
HasMissingMsg(doubts, n) ==
    \E i \in DOMAIN doubts : doubts[i].kind = "not_found_task" /\ doubts[i].n = n

\* _run_ranking, for one category whose ranking returned a result: the
\* sanity check of the rank -1 persons and the check of the total count.
RankingChecks(result, target_names) ==
    LET not_found_persons == SelectSeq(result.persons, LAMBDA p : p.rank = -1)
        not_found_count == Len(not_found_persons)
        r1 == IF not_found_count > 0
              THEN [result EXCEPT
                      !.doubts = IF HasMissingMsg(result.doubts, not_found_count)
                                 THEN result.doubts
                                 ELSE Append(result.doubts,
                                             Doubt("not_found_task", not_found_count,
                                                   NameSet(not_found_persons))),
                      !.level = IF result.level = "High" THEN "Medium" ELSE result.level]
              ELSE result
    IN  IF Len(r1.persons) # Cardinality(target_names)
        THEN [r1 EXCEPT
                !.doubts = Append(r1.doubts, Doubt("total_mismatch", Len(r1.persons), {})),
                !.level = "Low"]
        ELSE r1

\* found_count: the persons with rank >= 0.
FoundCount(result) == Len(SelectSeq(result.persons, LAMBDA p : p.rank >= 0))

\* "[Verifier Doubt] d"
VerifierDoubt(d) == [d EXCEPT !.kind = "[Verifier Doubt] " \o d.kind]

InSeq(x, seq) == \E i \in DOMAIN seq : seq[i] = x

\* The verification doubts a result does not hold yet, prefixed and appended.
WithVerifierDoubts(result, verification_doubts) ==
    [result EXCEPT !.doubts =
        result.doubts \o
        [i \in 1..Len(SelectSeq(verification_doubts,
                                LAMBDA d : ~InSeq(VerifierDoubt(d), result.doubts)
                                           /\ ~InSeq(d, result.doubts))) |->
            VerifierDoubt(SelectSeq(verification_doubts,
                                    LAMBDA d : ~InSeq(VerifierDoubt(d), result.doubts)
                                               /\ ~InSeq(d, result.doubts))[i])]]

\* final_results: the categories whose ranking returned a result.
FinalResults(t) == {c \in CatSet : t.results[c].ok}

\* Mutant: the levels of the results are not looked at.
NeedsReview_DoubtsOnly(t) ==
    \/ t.verification_doubts # <<>>
    \/ \E c \in FinalResults(t) : t.results[c].doubts # <<>>

\* needs_review: the checks 1 and 2 of step 5.
NeedsReview(t) ==
    \/ t.verification_doubts # <<>>
    \/ \E c \in FinalResults(t) :
          t.results[c].level # "High" \/ t.results[c].doubts # <<>>

\* Step 5: the status of a task whose ranking has ended.
DetermineStatus(t) ==
    LET total_target_count == Cardinality(Combined(t.lists))
        s0 == IF FinalResults(t) = {} /\ total_target_count > 0
              THEN "failed" ELSE "success"
        s1 == IF NeedsReview(t) THEN "review" ELSE s0
    IN  IF t.p1_found_count = total_target_count
           /\ t.final_found_count < total_target_count
           /\ s1 = "success"
        THEN "review" ELSE s1

\* Step 5, the loop over final_results: the verification doubts are attached
\* and the ranked persons are written to the category's CSV.
SaveResults(t) ==
    [t EXCEPT
       !.results = [c \in CatSet |->
                      IF t.results[c].ok
                      THEN WithVerifierDoubts(t.results[c], t.verification_doubts)
                      ELSE t.results[c]],
       !.csv = FinalResults(t)]

\* The categories from index i on that have a roster.
Remaining(lists, i) == {j \in i..Len(Cats) : lists[Cats[j]] # {}}

Min(S) == CHOOSE x \in S : \A y \in S : x <= y

\* Mutant: the found-count of a category replaces the total.
AddFound_Overwrite(total_found_count, found_count) == found_count

\* total_found_count += found_count
AddFound(total_found_count, found_count) == total_found_count + found_count

\* The body of the loop of _run_ranking for category c, the oracle answering
\* a: the result is kept and its ranked persons counted, a None is dropped.
RankOne(t, c, a) ==
    LET result == rank_names_from_text(t.lists[c], a)
    IN  [t EXCEPT
           !.calls = Append(t.calls, c),
           !.results[c] = IF result.ok
                          THEN RankingChecks(result, t.lists[c])
                          ELSE result,
           !.final_found_count =
               IF result.ok THEN AddFound(t.final_found_count, FoundCount(result))
               ELSE t.final_found_count]

\* Step 4: _run_ranking ranks the next category that has a roster; after the
\* last one, step 5 fixes the status and the finally block saves the bundle.
RankCategory ==
    /\ task.pc = "rank"
    /\ Remaining(task.lists, task.cat) # {}
    /\ LET i == Min(Remaining(task.lists, task.cat))
           c == Cats[i]
       IN  \E a \in TaskRankAnswers(task.lists[c]) :
              LET t == [RankOne(task, c, a) EXCEPT !.cat = i + 1]
              IN  task' = IF Remaining(task.lists, i + 1) = {}
                          THEN Finish(SaveResults(t), DetermineStatus(t))
                          ELSE t
    /\ UNCHANGED <<ex, loc, ord>>

NextTask ==
    LoadRoster \/ ParsePdf \/ ExtractCoreBlocks \/ VerifyP1 \/ VerifyP2 \/ RankCategory

SpecTask == InitTask /\ [][NextTask]_vars

\* ------------------------------------------------ the order of the rankings
\* The loop of _run_ranking from category i on, in the order of the source,
\* the oracle answering answers[c] for category c.
RECURSIVE RunInOrder(_, _, _)
RunInOrder(t, answers, i) ==
    IF i > Len(Cats) THEN t
    ELSE IF t.lists[Cats[i]] = {} THEN RunInOrder(t, answers, i + 1)
    ELSE RunInOrder(RankOne(t, Cats[i], answers[Cats[i]]), answers, i + 1)

\* The categories that have a roster.
ToRank(lists) == {c \in CatSet : lists[c] # {}}

\* The ranking answers the order of the rankings is tried with, for roster
\* R: failure; everybody located; the first member not found, with a level
\* of Low; a person outside the roster added.
OrderRankAnswers(R) ==
    {RankNone,
     RankResult(Located(R), "High", <<>>),
     RankResult(FirstNotFound(R), "Low", <<>>),
     RankResult(Append(Located(R), [rank |-> 1, name |-> MaxTaskNames + 1, role |-> "r"]),
                "High", <<>>)}

\* Step 4 with the rankings taken in any order: the ranking of a category
\* not yet ranked; after the last one, step 5 and the finally block.
RankAnyOrder ==
    /\ task.pc = "rank"
    /\ \E c \in ToRank(task.lists) \ ord.done :
          \E a \in OrderRankAnswers(task.lists[c]) :
             LET t == RankOne(task, c, a)
             IN  /\ ord' = [ord EXCEPT !.done = ord.done \cup {c},
                                       !.answers[c] = a,
                                       !.base = IF ord.done = {} THEN task ELSE ord.base]
                 /\ task' = IF ord.done \cup {c} = ToRank(task.lists)
                            THEN Finish(SaveResults(t), DetermineStatus(t))
                            ELSE t
    /\ UNCHANGED <<ex, loc>>

NextRankOrder ==
    LoadRoster \/ ParsePdf \/ ExtractCoreBlocks \/ VerifyP1 \/ VerifyP2 \/ RankAnyOrder

SpecRankOrder == InitTask /\ [][NextRankOrder]_vars

\* ------------------------------------------------ process_file
VERIFICATION_MAX_RETRIES == 10
TOC_SEARCH_PAGES == 10

\* Most pages of a document, and most pages of a chapter beyond its first.
MaxPages == 11
MaxChapter == 1

Statuses == {"match", "too_early", "too_late", "fail"}

\* What the oracle answers when asked about a page: a PageVerificationResult
\* status, or no usable answer (transport error, timeout, schema violation).
OracleAnswers == Statuses \cup {"raise"}

\* The parameters of verify_chapter_start_page(page_markdown, target_title,
\* settings), and the arguments process_file calls it with (page_markdown,
\* target_title, settings, verification_history).
VerifyParams == 3
VerifyArgs == 4

\* The call of verify_chapter_start_page: a TypeError when the arguments do
\* not fit the parameters, before any request is made; otherwise what the
\* oracle answers.
verify_chapter_start_page(nargs, answer) ==
    IF nargs # VerifyParams THEN "raise" ELSE answer

\* Steps 1 to 5 have passed: the document has at least TOC_SEARCH_PAGES pages,
\* and the table of contents gave a start and an end page, neither -1, the end
\* not before the start.
InitSearch ==
    /\ \E n \in TOC_SEARCH_PAGES..MaxPages, sp \in 0..(MaxPages + 1), len \in 0..MaxChapter :
          loc = [LocIdle EXCEPT !.pc = "search", !.total_pages = n,
                                !.start_page = sp, !.end_page = sp + len,
                                !.current_pdf_index = sp - 1]
    /\ ex = ExIdle
    /\ task = TaskIdle
    /\ ord = OrdIdle

\* Mutant: only the visited indexes are checked.
GuardStops_VisitedOnly(current_pdf_index, total_pages, visited_indexes) ==
    current_pdf_index \in visited_indexes

\* Mutant: only the bounds are checked.
GuardStops_BoundsOnly(current_pdf_index, total_pages, visited_indexes) ==
    ~(0 <= current_pdf_index /\ current_pdf_index < total_pages)

\* 0. The bounds and cycle check at the head of an iteration.
GuardStops(current_pdf_index, total_pages, visited_indexes) ==
    \/ ~(0 <= current_pdf_index /\ current_pdf_index < total_pages)
    \/ current_pdf_index \in visited_indexes

\* 3. The decision on a returned status: l.brk tells whether the loop is left.
ApplyVerdict(l, status) ==
    CASE status = "match" ->
            [l EXCEPT !.found_pdf_index = l.current_pdf_index, !.brk = TRUE]
      [] status = "too_early" ->
            [l EXCEPT !.current_pdf_index = l.current_pdf_index + 1]
      [] status = "too_late" ->
            [l EXCEPT !.current_pdf_index = l.current_pdf_index - 1]
      [] OTHER -> [l EXCEPT !.brk = TRUE]

\* Mutant: a failed conversion or oracle call does not leave the loop.
LoopBody_NoBreakOnFailure(l0, conv_ok, answer, nargs) ==
    LET l == [l0 @@ [brk |-> FALSE] EXCEPT !.i = l0.i + 1]
    IN  IF GuardStops(l.current_pdf_index, l.total_pages, l.visited_indexes)
        THEN [l EXCEPT !.brk = TRUE]
        ELSE LET l1 == [l EXCEPT
                          !.visited_indexes = l.visited_indexes \cup {l.current_pdf_index},
                          !.tested = Append(l.tested, l.current_pdf_index)]
             IN  IF ~conv_ok THEN l1
                 ELSE LET status == verify_chapter_start_page(nargs, answer)
                          l2 == [l1 EXCEPT !.pages = Append(l1.pages,
                                     [index |-> l.current_pdf_index, answer |-> answer])]
                      IN  IF status = "raise" THEN l2
                          ELSE ApplyVerdict(
                                 [l2 EXCEPT !.verification_history =
                                     Append(l2.verification_history,
                                            [index |-> l.current_pdf_index,
                                             status |-> status])],
                                 status)

\* One iteration of the loop: conv_ok tells whether the page was converted,
\* answer what the oracle says about the page, nargs the arguments of the call.
LoopBody(l0, conv_ok, answer, nargs) ==
    LET l == [l0 @@ [brk |-> FALSE] EXCEPT !.i = l0.i + 1]
    IN  IF GuardStops(l.current_pdf_index, l.total_pages, l.visited_indexes)
        THEN [l EXCEPT !.brk = TRUE]
        ELSE LET l1 == [l EXCEPT
                          !.visited_indexes = l.visited_indexes \cup {l.current_pdf_index},
                          !.tested = Append(l.tested, l.current_pdf_index)]
             IN  IF ~conv_ok THEN [l1 EXCEPT !.brk = TRUE]
                 ELSE LET status == verify_chapter_start_page(nargs, answer)
                          l2 == [l1 EXCEPT !.pages = Append(l1.pages,
                                     [index |-> l.current_pdf_index, answer |-> answer])]
                      IN  IF status = "raise" THEN [l2 EXCEPT !.brk = TRUE]
                          ELSE ApplyVerdict(
                                 [l2 EXCEPT !.verification_history =
                                     Append(l2.verification_history,
                                            [index |-> l.current_pdf_index,
                                             status |-> status])],
                                 status)

\* Mutant: the end index is not clipped to the last page.
Min2_NoClip(a, b) == a

Min2(a, b) == IF a <= b THEN a ELSE b

\* Mutant: the crop is attempted whether a start page was found or not.
Conclude_NoFoundTest(l, crop_ok) ==
    LET chapter_length == l.end_page - l.start_page + 1
        end_index == Min2(l.found_pdf_index + chapter_length - 1, l.total_pages - 1)
    IN  [l EXCEPT !.pc = "done",
                  !.start_index = l.found_pdf_index, !.end_index = end_index,
                  !.result = IF crop_ok THEN "SUCCESS" ELSE "FAILED (crop)"]

\* After the loop: no start page found is a failure; otherwise step 7 crops
\* from the start page over the chapter's length, clipped to the last page.
Conclude(l, crop_ok) ==
    IF l.found_pdf_index = -1
    THEN [l EXCEPT !.pc = "done", !.result = "FAILED (search)"]
    ELSE LET chapter_length == l.end_page - l.start_page + 1
             end_index == Min2(l.found_pdf_index + chapter_length - 1, l.total_pages - 1)
         IN  [l EXCEPT !.pc = "done",
                       !.start_index = l.found_pdf_index, !.end_index = end_index,
                       !.result = IF crop_ok THEN "SUCCESS" ELSE "FAILED (crop)"]

\* The record without the loop's break flag.
Fields(l) == [f \in DOMAIN LocIdle |-> l[f]]

\* Step 6: one iteration of the search, with the arguments nargs in the call
\* of the verifier; the iteration that leaves the loop goes on to step 7.
SearchStep(nargs) ==
    /\ loc.pc = "search"
    /\ loc.i < VERIFICATION_MAX_RETRIES
    /\ \E conv_ok \in BOOLEAN, answer \in OracleAnswers, crop_ok \in BOOLEAN :
          LET l == LoopBody(loc, conv_ok, answer, nargs)
          IN  loc' = IF l.brk \/ l.i = VERIFICATION_MAX_RETRIES
                     THEN Conclude(Fields(l), crop_ok)
                     ELSE Fields(l)
    /\ UNCHANGED <<ex, task, ord>>

\* process_file as the sources have it.
LocatorIteration == SearchStep(VerifyArgs)

SpecLocator == InitSearch /\ [][LocatorIteration]_vars

\* The loop of process_file with a verifier that takes the arguments of the
\* call: every sequence of answers (statuses and failures) reaches the loop.
SearchIteration == SearchStep(VerifyParams)

SpecSearch == InitSearch /\ [][SearchIteration]_vars

\* ------------------------------------------------ claims on SpecExtractor
\* The oracle's ranking answer was post-processed for a non-empty roster.
RankAnswered == ex.pc = "ranked" /\ ex.roster # {} /\ ex.ranswer.ok

\* The oracle's verification answer was post-processed.
VerifyAnswered ==
    ex.pc = "verified" /\ ex.roster # {} /\ ~ex.blank /\ ex.vanswer.ok

HasDoubt(doubts, kind) == \E i \in DOMAIN doubts : doubts[i].kind = kind

IsPrefix(s, t) == Len(s) <= Len(t) /\ SubSeq(t, 1, Len(s)) = s

\* C1. Roster closure: whenever rank_names_from_text returns a result for a
\* non-empty roster, the names of result.persons are exactly the roster.
C1_RosterClosure ==
    (ex.pc = "ranked" /\ ex.roster # {} /\ ex.rresult.ok)
        => NameSet(ex.rresult.persons) = ex.roster

\* C3. Monotone confidence: the level of a returned assessment is never
\* higher than the level the oracle returned.
C3_MonotoneConfidence ==
    /\ (RankAnswered /\ ex.rresult.ok)
          => LevelNum(ex.rresult.level) <= LevelNum(ex.ranswer.level)
    /\ (VerifyAnswered /\ ex.vresult.ok)
          => LevelNum(ex.vresult.level) <= LevelNum(ex.vanswer.level)

\* C6. found_names of every NameVerificationResult returned by
\* verify_name_presence is a subset of the roster passed in.
C6_FoundNamesInRoster ==
    (ex.pc = "verified" /\ ex.vresult.ok)
        => Range(ex.vresult.found_names) \subseteq ex.roster

\* The oracle named somebody outside the roster, and a result came back.
C6_Witness ==
    /\ VerifyAnswered
    /\ ~(Range(ex.vanswer.found_names) \subseteq ex.roster)
    /\ ex.vresult.ok
    /\ ex.vresult.found_names # <<>>

\* C7. Hallucination filter idempotence: the filter applied to a result that
\* was already filtered against the same roster returns it unchanged (same
\* names, same doubts, same level).
C7_FilterIdempotent ==
    /\ ex.pc = "ranked_again" => ex.rresult = ex.ronce
    /\ ex.pc = "verified_again" => ex.vresult = ex.vonce

\* The first application removed a name; the filter has been applied again.
C7_Witness ==
    /\ ex.pc = "ranked_again"
    /\ ex.ranswer.ok
    /\ ~(NameSet(ex.ranswer.persons) \subseteq ex.roster)
    /\ HasDoubt(ex.rresult.doubts, "hallucination")

\* C8. Backfill: when the oracle's name-set is a strict subset of the roster,
\* a result is returned that holds Person(-1, missing, "N/A") for every
\* missing roster member, a doubt about them, a level of at most Medium, and
\* as many persons as the roster has names.
C8_Backfill ==
    (RankAnswered /\ NameSet(ex.ranswer.persons) \subseteq ex.roster
                  /\ NameSet(ex.ranswer.persons) # ex.roster)
        => /\ ex.rresult.ok
           /\ \A m \in ex.roster \ NameSet(ex.ranswer.persons) :
                 \E i \in DOMAIN ex.rresult.persons :
                    ex.rresult.persons[i] = [rank |-> -1, name |-> m, role |-> "N/A"]
           /\ HasDoubt(ex.rresult.doubts, "backfill")
           /\ ex.rresult.level # "High"
           /\ Len(ex.rresult.persons) = Cardinality(ex.roster)

\* C9. Ranking hallucination filter: when the oracle returns a name outside
\* the roster, the result has that entry removed, a doubt appended, a level of
\* at most Medium, and every other returned person unchanged, in order.
C9_RankFilter ==
    (RankAnswered /\ ~(NameSet(ex.ranswer.persons) \subseteq ex.roster))
        => /\ ex.rresult.ok
           /\ NameSet(ex.rresult.persons) \subseteq ex.roster
           /\ IsPrefix(SelectSeq(ex.ranswer.persons, LAMBDA p : p.name \in ex.roster),
                       ex.rresult.persons)
           /\ HasDoubt(ex.rresult.doubts, "hallucination")
           /\ ex.rresult.level # "High"

\* ------------------------------------------------ claims on SpecTask
TotalTargetCount == Cardinality(Combined(task.lists))

\* _run_verification has been run for P2.
P2Verified == InSeq("P2", task.verified)

\* C4. Tie-break determinism: once P2 has been verified, P2 is the source
\* only if it found strictly more names than P1; with equal found-counts
\* (0 = 0 included) the source is P1.
C4_TieBreak ==
    /\ task.source = "P2" => (P2Verified /\ task.p2_found_count > task.p1_found_count)
    /\ (P2Verified /\ task.source # "N/A"
          /\ task.p2_found_count = task.p1_found_count) => task.source = "P1"

\* P1 and P2 both found one name of a roster of two, and P1 was selected.
C4_Witness ==
    /\ P2Verified
    /\ task.p1_found_count = task.p2_found_count
    /\ task.p1_found_count > 0
    /\ task.source = "P1"
    /\ task.pc = "rank"

\* C5. P1 short-circuit: when the verification of P1 finds as many names as
\* the combined roster holds, P1 is the source and P2 is never verified; P2 is
\* verified only after a P1 verification whose found-count differs from the
\* size of the roster.
C5_ShortCircuit ==
    /\ (task.verified # <<>> /\ task.pc # "idle"
          /\ task.p1_found_count = TotalTargetCount)
          => (task.source = "P1" /\ ~P2Verified /\ task.pc # "verify_p2"
                /\ ~InSeq("verify_p2", task.calls))
    /\ (P2Verified \/ task.pc = "verify_p2" \/ InSeq("verify_p2", task.calls))
          => (task.verified[1] = "P1" /\ task.p1_found_count # TotalTargetCount)

\* P1 held the whole roster of two names; the ranking has started.
C5_Witness ==
    /\ task.verified = <<"P1">>
    /\ TotalTargetCount = MaxTaskNames
    /\ task.p1_found_count = TotalTargetCount
    /\ task.source = "P1"
    /\ task.pc = "rank"

\* ------------------------------------------------ claims on the search
Distinct(seq) == \A a, b \in DOMAIN seq : seq[a] = seq[b] => a = b

\* C2. Cycle safety: in one run of the search every page index is added to
\* visited_indexes, and put to the oracle, at most once, and the loop has
\* ended after at most VERIFICATION_MAX_RETRIES iterations.
C2_CycleSafety ==
    /\ Distinct(loc.tested)
    /\ Distinct([k \in DOMAIN loc.pages |-> loc.pages[k].index])
    /\ loc.i <= VERIFICATION_MAX_RETRIES
    /\ loc.i = VERIFICATION_MAX_RETRIES => loc.pc = "done"

\* The search turned round and was stopped at a page it had visited.
C2_Witness ==
    /\ loc.pc = "done"
    /\ Len(loc.tested) >= 2
    /\ loc.current_pdf_index \in loc.visited_indexes
    /\ loc.found_pdf_index = -1
    /\ loc.verification_history[Len(loc.verification_history)].status = "too_late"

\* C10. Locator verdict application: the oracle's answer for the page at
\* index i is applied: match ends the search with found index i, too_early
\* moves the current index to i + 1, too_late to i - 1, fail ends the search
\* without a found index; a run from index 5 with the answers too_late,
\* too_late, match for 5, 4, 3 ends with found index 3.
C10_VerdictApplied ==
    /\ loc.pages # <<>> =>
         LET p == loc.pages[Len(loc.pages)]
         IN  /\ p.answer = "match" => (loc.pc = "done" /\ loc.found_pdf_index = p.index)
             /\ p.answer = "too_early" =>
                   (loc.current_pdf_index = p.index + 1 /\ loc.found_pdf_index = -1)
             /\ p.answer = "too_late" =>
                   (loc.current_pdf_index = p.index - 1 /\ loc.found_pdf_index = -1)
             /\ p.answer = "fail" => (loc.pc = "done" /\ loc.found_pdf_index = -1)
    /\ (loc.start_page = 6 /\ Len(loc.pages) = 3
          /\ loc.pages[1].answer = "too_late" /\ loc.pages[2].answer = "too_late"
          /\ loc.pages[3].answer = "match")
          => loc.found_pdf_index = 3

\* The search started at index 5 and the pages 5, 4, 3 were answered
\* too_late, too_late and `third`.
Scenario543(third) ==
    /\ loc.start_page = 6
    /\ Len(loc.pages) >= 3
    /\ loc.pages[1] = [index |-> 5, answer |-> "too_late"]
    /\ loc.pages[2] = [index |-> 4, answer |-> "too_late"]
    /\ loc.pages[3] = [index |-> 3, answer |-> third]

\* The search stopped after the pages 5, 4, 3 at a visited index, without a
\* found index and without another page tested or put to the oracle.
CycleAfter543 ==
    /\ loc.tested = <<5, 4, 3>>
    /\ Len(loc.pages) = 3
    /\ loc.found_pdf_index = -1
    /\ loc.pc = "search" => (loc.i = 3 /\ loc.current_pdf_index \in loc.visited_indexes)
    /\ loc.pc = "done" => (loc.result = "FAILED (search)"
                            /\ loc.current_pdf_index \in loc.visited_indexes)

CropAttempted == loc.pc = "done" /\ loc.result \in {"SUCCESS", "FAILED (crop)"}

\* C12. The end index used for cropping is the located start index plus
\* (end_page - start_page), clipped to the last page total_pages - 1; on
\* every successful run 0 <= start_index <= end_index <= total_pages - 1.
C12_EndIndex ==
    CropAttempted =>
        LET derived == loc.start_index + (loc.end_page - loc.start_page)
        IN  /\ loc.start_index = loc.found_pdf_index
            /\ loc.end_index = IF derived <= loc.total_pages - 1
                               THEN derived ELSE loc.total_pages - 1
            /\ 0 <= loc.start_index
            /\ loc.start_index <= loc.end_index
            /\ loc.end_index <= loc.total_pages - 1

\* A successful run whose chapter was clipped at the last page, its start
\* found away from the page the table of contents gave.
C12_Witness ==
    /\ loc.pc = "done"
    /\ loc.result = "SUCCESS"
    /\ loc.start_index + (loc.end_page - loc.start_page) > loc.total_pages - 1
    /\ loc.end_index = loc.total_pages - 1
    /\ loc.start_index # loc.start_page - 1

\* The page conversion of the last iteration raised: the page was tested and
\* never put to the oracle.
ConversionRaised == Len(loc.tested) > Len(loc.pages)

\* The oracle call for the k-th page raised.
OracleRaised(k) ==
    k \in DOMAIN loc.pages /\ verify_chapter_start_page(VerifyParams, loc.pages[k].answer) = "raise"

\* C13. Locator failure is a value and is not retried: when the page
\* conversion or the oracle call of an iteration raises, the search has
\* stopped with no further conversion or oracle call, and process_file
\* returns the FAILED result string.
C13_FailureIsValue ==
    /\ ConversionRaised =>
          /\ Len(loc.tested) = Len(loc.pages) + 1
          /\ loc.pc = "done"
          /\ loc.result = "FAILED (search)"
    /\ \A k \in DOMAIN loc.pages :
          OracleRaised(k) =>
             /\ k = Len(loc.pages)
             /\ Len(loc.tested) = k
             /\ loc.pc = "done"
             /\ loc.result = "FAILED (search)"
    /\ loc.pc = "done" => loc.result \in {"SUCCESS", "FAILED (search)", "FAILED (crop)"}

\* The oracle call raised at the third page of a search.
C13_Witness ==
    /\ Len(loc.pages) = 3
    /\ OracleRaised(3)
    /\ loc.pc = "done"

\* ------------------------------------------------ more claims on SpecTask
\* The found-count of the verification of the selected source.
SelectedFoundCount ==
    IF task.source = "P2" THEN task.p2_found_count ELSE task.p1_found_count

\* A ranking call was issued for some category.
RankingCalled == \E c \in CatSet : InSeq(c, task.calls)

\* C14. No usable source: with a non-empty roster, when P1 and P2 are both
\* blank, or the selected source's verification found no roster name, the
\* task ends failed and no ranking call is issued.
C14_NoUsableSource ==
    (TotalTargetCount > 0 /\ task.source # "N/A"
        /\ ((task.p1_blank /\ task.p2_blank) \/ SelectedFoundCount = 0))
        => (task.pc = "done" /\ task.status = "failed" /\ ~RankingCalled)

\* C15. Empty roster short-circuit: when the union of the three rosters is
\* empty, the task returns success with no category result and without any
\* conversion, core-block split, verification or ranking call.
C15_EmptyRoster ==
    (TotalTargetCount = 0 /\ task.pc \notin {"idle", "load"})
        => /\ task.pc = "done"
           /\ task.status = "success"
           /\ task.calls = <<>>
           /\ task.verified = <<>>
           /\ FinalResults(task) = {}
           /\ task.csv = {}

\* A task with three empty rosters has returned.
C15_Witness ==
    /\ \A c \in CatSet : task.lists[c] = {}
    /\ task.pc = "done"
    /\ task.saved = <<"success">>

\* The ranking call of category c was issued and returned None.
RankingFailed(c) == InSeq(c, task.calls) /\ ~task.results[c].ok

\* C16. Fatal stage errors end in failed: a task in which the conversion,
\* the core-block split or a verification failed (it ended before any
\* ranking call), or in which the ranking call of a category failed, returns
\* failed, never success or review.
C16_FatalIsFailed ==
    (task.pc = "done" /\ TotalTargetCount > 0
        /\ (~RankingCalled \/ \E c \in CatSet : RankingFailed(c)))
        => task.status = "failed"

\* Roster member m of category c has a ranked entry (rank >= 0) in the
\* category's result.
MemberRanked(c, m) ==
    /\ task.results[c].ok
    /\ \E i \in DOMAIN task.results[c].persons :
          task.results[c].persons[i].name = m /\ task.results[c].persons[i].rank >= 0

\* The ranking stage located fewer members than the rosters hold.
RankingIncomplete == \E c \in CatSet : \E m \in task.lists[c] : ~MemberRanked(c, m)

\* C17. Disagreement check: when the verification of the selected source (P1
\* or P2) found the whole combined roster and the ranking stage left a
\* roster member without a ranked entry in its category, the status of the
\* task is review, never success, whatever the confidence levels.
C17_Disagreement ==
    (task.pc = "done" /\ RankingCalled /\ TotalTargetCount > 0
        /\ SelectedFoundCount = TotalTargetCount /\ RankingIncomplete)
        => /\ task.status # "success"
           /\ (\A c \in CatSet : ~RankingFailed(c)) => task.status = "review"

\* C18. Status meaning: a task returns review only if at least one category
\* result was produced and persisted; when the ranking stage produced no
\* result at all for a non-empty roster the status is failed, also when the
\* verification of the selected source carried doubts.
C18_StatusMeaning ==
    /\ (task.pc = "done" /\ task.status = "review")
          => (FinalResults(task) # {} /\ task.csv # {})
    /\ (task.pc = "done" /\ RankingCalled /\ TotalTargetCount > 0
          /\ FinalResults(task) = {})
          => task.status = "failed"

\* ------------------------------------------------ claims on SpecRankOrder
\* The task run from ord.base with the rankings in the order of the source.
InSourceOrder ==
    LET t == RunInOrder(ord.base, ord.answers, 1)
    IN  Finish(SaveResults(t), DetermineStatus(t))

C20_DebugBundle ==
    /\ task.pc = "done" =>
          /\ Len(task.saved) = 1
          /\ task.saved[1] = task.status
          /\ task.status \in {"success", "review", "failed"}
    /\ task.pc # "done" => task.saved = <<>>

\* The conversion raised: the task returned failed and saved its bundle.
C20_Witness ==
    /\ task.pc = "done"
    /\ task.calls = <<"parse">>
    /\ task.saved = <<"failed">>

\* ------------------------------------------------ more claims on the search
\* The last iteration stopped at its head: it tested no page.
StoppedAtGuard == loc.i > Len(loc.tested)

\* C21. Bounds and cycle guard: an iteration whose current index is outside
\* [0, total_pages) or in visited_indexes stops the search with failure
\* before the page is extracted, converted or put to the oracle; the pages
\* extracted, and those put to the oracle, have indices in [0, total_pages)
\* that were not extracted or asked about before.
C21_Guard ==
    /\ \A k \in DOMAIN loc.tested :
          /\ 0 <= loc.tested[k] /\ loc.tested[k] < loc.total_pages
          /\ \A j \in 1..(k - 1) : loc.tested[j] # loc.tested[k]
    /\ \A k \in DOMAIN loc.pages :
          /\ loc.pages[k].index = loc.tested[k]
          /\ \A j \in 1..(k - 1) : loc.pages[j].index # loc.pages[k].index
    /\ loc.visited_indexes = Range(loc.tested)
    /\ StoppedAtGuard =>
          /\ loc.i = Len(loc.tested) + 1
          /\ loc.pc = "done"
          /\ loc.result = "FAILED (search)"
          /\ \/ loc.current_pdf_index < 0
             \/ loc.current_pdf_index >= loc.total_pages
             \/ loc.current_pdf_index \in loc.visited_indexes

\* The search walked down from page 1 and was stopped at index -1.
C21_Witness ==
    /\ StoppedAtGuard
    /\ loc.pc = "done"
    /\ Len(loc.pages) >= 2
    /\ loc.current_pdf_index = -1

\* ------------------------------------------------ claims on the status
\* C22. Selected-source assessment: the verification doubts and level that
\* bear on the status are those of the selected source (the doubt about a
\* blank P1 is dropped when P2 is selected), and a selected source with
\* doubts, or with a level other than High, leads to review.
C22_SelectedAssessment ==
    /\ (task.source = "P2" /\ task.p1_blank /\ ~task.p2_blank)
          => ~HasDoubt(task.verification_doubts, "blank_source")
    /\ (task.pc = "done" /\ FinalResults(task) # {}
          /\ (task.verification_doubts # <<>> \/ task.ver_level # "High"))
          => task.status = "review"

\* C23. Review rule: when the ranking produced at least one category result
\* and no stage raised, the status is review whenever the selected source's
\* verification has a doubt, or a category result has a level other than
\* High, or a category result has a doubt.
C23_ReviewRule ==
    (task.pc = "done" /\ FinalResults(task) # {}
        /\ \/ task.verification_doubts # <<>>
           \/ \E c \in FinalResults(task) :
                 task.results[c].level # "High" \/ task.results[c].doubts # <<>>)
        => task.status = "review"

\* A task came to review on the level of a category result alone, where the
\* disagreement check could not have fired.
C23_Witness ==
    /\ task.pc = "done"
    /\ task.status = "review"
    /\ task.verification_doubts = <<>>
    /\ task.p1_found_count # TotalTargetCount
    /\ \A c \in FinalResults(task) : task.results[c].doubts = <<>>
    /\ \E c \in FinalResults(task) : task.results[c].level = "Low"

\* ------------------------------------------------ more claims on SpecExtractor
\* The persons of a list that have rank -1.
NotFoundIn(persons) == SelectSeq(persons, LAMBDA p : p.rank = -1)

\* The oracle named every roster member once and nobody else: neither the
\* hallucination filter nor the completeness check acts.
ExactAnswer ==
    /\ NameSet(ex.ranswer.persons) = ex.roster
    /\ Len(ex.ranswer.persons) = Cardinality(ex.roster)

NamesOf(persons) == [i \in DOMAIN persons |-> persons[i].name]

\* C25. No person split across ranks: in every category result the task
\* keeps, no two entries of persons have the same name.
C25_NoSplit ==
    \A c \in CatSet :
        task.results[c].ok => Distinct(NamesOf(task.results[c].persons))

\* C26. Sentinel pairing: in every result returned by rank_names_from_text,
\* every person with rank -1 has the role "N/A", whether the backfill made the
\* entry or the oracle returned it.
C26_SentinelPairing ==
    (ex.pc = "ranked" /\ ex.rresult.ok)
        => \A i \in DOMAIN ex.rresult.persons :
              ex.rresult.persons[i].rank = -1 => ex.rresult.persons[i].role = "N/A"

\* ------------------------------------------------ claims on the order of the stages
\* The external calls of a task, in the order of the pipeline.
StageOrder ==
    <<"parse", "split", "verify_p1", "verify_p2">> \o Cats

\* The place of a call in the order of the pipeline.
StageIndex(call) == CHOOSE k \in DOMAIN StageOrder : StageOrder[k] = call

\* C27. Stage ordering: the external calls of a task occur in the order
\* conversion, core-block split, P1 verification, P2 verification, ranking of
\* Directors, Supervisors, SeniorManagement, each at most once (so at most two
\* verification and three ranking calls); nothing is called before the
\* conversion and the split, no ranking before a source is selected, and
\* nothing after the task has fixed its status.
C27_StageOrder ==
    /\ \A k \in DOMAIN task.calls :
          /\ \E j \in DOMAIN StageOrder : StageOrder[j] = task.calls[k]
          /\ \A j \in 1..(k - 1) : StageIndex(task.calls[j]) < StageIndex(task.calls[k])
    /\ Len(task.calls) >= 1 => task.calls[1] = "parse"
    /\ Len(task.calls) >= 2 => task.calls[2] = "split"
    /\ RankingCalled => task.source # "N/A"
    /\ task.pc = "done" => Len(task.saved) = 1

\* A task made all seven calls.
C27_Witness ==
    /\ task.pc = "done"
    /\ task.calls = StageOrder

\* ------------------------------------------------ claims on success
\* C28. Success means complete and confident: when a task with a non-empty
\* roster returns success, every category that has a roster has a result with
\* level High and no doubts in which every roster member has a rank >= 0, and
\* the verification of the selected source had no doubts.
C28_SuccessComplete ==
    (task.pc = "done" /\ task.status = "success" /\ TotalTargetCount > 0)
        => /\ task.verification_doubts = <<>>
           /\ \A c \in ToRank(task.lists) :
                 /\ task.results[c].ok
                 /\ task.results[c].level = "High"
                 /\ task.results[c].doubts = <<>>
                 /\ \A m \in task.lists[c] : MemberRanked(c, m)

\* ------------------------------------------------ claims on the result of the search
\* The oracle answered match for the k-th page put to it.
MatchedAt(k) ==
    k \in DOMAIN loc.pages /\ verify_chapter_start_page(VerifyParams, loc.pages[k].answer) = "match"

\* C29. Locator success is justified: the crop step is reached only if an
\* oracle call of the run returned match, the start index of the crop is the
\* index that call was about, and it lies in [0, total_pages); a run in which
\* no call returned match ends FAILED without a crop.
C29_SuccessJustified ==
    /\ (loc.pc = "done" /\ loc.result \in {"SUCCESS", "FAILED (crop)"})
          => /\ loc.pages # <<>>
             /\ MatchedAt(Len(loc.pages))
             /\ loc.start_index = loc.pages[Len(loc.pages)].index
             /\ 0 <= loc.start_index /\ loc.start_index < loc.total_pages
    /\ (loc.pc = "done" /\ ~\E k \in DOMAIN loc.pages : MatchedAt(k))
          => /\ loc.result = "FAILED (search)"
             /\ loc.start_index = -1
             /\ loc.end_index = -1

\* The tenth iteration of a search found the start page.
C29_Witness ==
    /\ loc.pc = "done"
    /\ loc.result = "SUCCESS"
    /\ loc.i = VERIFICATION_MAX_RETRIES
    /\ MatchedAt(VERIFICATION_MAX_RETRIES)

\* ------------------------------------------------ claims on the doubts
\* The doubts of a list that report roster members not found in the text.
NotFoundDoubts(doubts) ==
    SelectSeq(doubts, LAMBDA d : d.kind \in {"not_found_rank", "not_found_task"})

\* C30. No duplicated not-found doubt: a category result with rank -1
\* persons that _run_ranking has processed holds at most one doubt reporting
\* the roster members not found; _run_ranking adds none when
\* rank_names_from_text has added one.
C30_NoDuplicateDoubt ==
    \A c \in CatSet :
        (task.results[c].ok /\ NotFoundIn(task.results[c].persons) # <<>>)
            => Len(NotFoundDoubts(task.results[c].doubts)) <= 1

====
